---- MODULE Spec2Model ----
(***************************************************************************)
(* Model of the Informix database service: the DatabaseService facade      *)
(* (src/src/services/DatabaseService.js) with its time-based query cache,  *)
(* and the InformixConnection bridge (src/unnamed/part_001) that writes a  *)
(* Java source file, compiles it, runs it in a child process and parses    *)
(* the captured output.                                                    *)
(*                                                                         *)
(* Node runs one handler at a time: everything a call does between two     *)
(* child-process 'close' events is one atomic action.  The suspension      *)
(* points are the compile step and the run step of a bridge call.          *)
(***************************************************************************)
EXTENDS Integers, Sequences, FiniteSets, TLC

(***************************************************************************)
(* Bounds of the model.                                                    *)
(***************************************************************************)
NumProcs == 2       \* concurrent callers of the service
MaxCalls == 3       \* calls started in one behaviour
MaxOverlaps == 1    \* calls started while another call is in flight
MaxTicks == 2       \* clock advances in one behaviour
MaxWrites == 1      \* writes that reach the database in one behaviour

(***************************************************************************)
(* Program constants.                                                      *)
(***************************************************************************)
cacheTimeout == 60000                  \* this.cacheTimeout, milliseconds
TickMs == cacheTimeout \div 2          \* granularity of the modelled clock

Procs == 1..NumProcs

WriteSqls == {"W"}                     \* INSERT/UPDATE/DELETE statements
WriteParams == {<<1>>}                 \* the parameter list given with them
TestSql == "T"                         \* 'SELECT FIRST 1 1 FROM systables'

\* The read calls callers make: <<sql, params, useCache, cacheTtl>>.  Two
\* statements (Q0 reads a table that stays empty), two parameter lists for
\* one statement, caching switched off, and a ttl override.
QueryCalls ==
    { <<"Q0", <<>>, TRUE, cacheTimeout>>,
      <<"Q1", <<>>, TRUE, cacheTimeout>>,
      <<"Q1", <<>>, TRUE, TickMs>>,
      <<"Q1", <<>>, FALSE, cacheTimeout>>,
      <<"Q1", <<1>>, TRUE, cacheTimeout>> }

Absent == "absent"                     \* a path with no file

(***************************************************************************)
(* Values that cross the bridge.  A value is null, an array of rows or the *)
(* outcome object of a write.                                              *)
(***************************************************************************)
NullVal == [tag |-> "null", rows |-> <<>>, rowsAffected |-> 0, success |-> FALSE]
ArrayVal(rows) == [tag |-> "array", rows |-> rows, rowsAffected |-> 0, success |-> FALSE]
ExecVal(n, s) == [tag |-> "object", rows |-> <<>>, rowsAffected |-> n, success |-> s]

\* A variant that takes the empty array for falsy, as a test of its length
\* would.
TruthyNonEmpty(v) == v.tag # "null" /\ ~(v.tag = "array" /\ v.rows = <<>>)

\* JavaScript truthiness of a value: null is falsy, every array (the empty
\* one too) and every object is truthy.
Truthy(v) == v.tag # "null"

\* The rows the database returns for a statement when it holds version v.
\* Q0 reads a table that stays empty; the others return one row.
RowsOf(sql, v) ==
    IF sql = "Q0" THEN <<>>
    ELSE IF sql = TestSql THEN <<[stmt |-> TestSql, ver |-> 0]>>
    ELSE <<[stmt |-> sql, ver |-> v]>>

(***************************************************************************)
(* DatabaseService: the cache.                                             *)
(***************************************************************************)
NoKey == <<>>                          \* clearCache(key = null)

\* A variant that derives the key from the statement text alone.
_getCacheKeyTextOnly(sql, params) == <<sql, <<>>>>

\* `${sql}:${JSON.stringify(params)}`
_getCacheKey(sql, params) == <<sql, params>>
Keys == {_getCacheKey(q[1], q[2]) : q \in QueryCalls}
ClearKeys == {NoKey, _getCacheKey("Q1", <<>>)}   \* arguments of clearCache

NoEntry == [present |-> FALSE, data |-> NullVal, timestamp |-> 0]
Entry(data, t) == [present |-> TRUE, data |-> data, timestamp |-> t]
EmptyCache == [k \in Keys |-> NoEntry]

\* A variant whose comparison includes the boundary.
CacheValidInclusive(entry, t) == entry.present /\ t - entry.timestamp <= cacheTimeout

\* cached && Date.now() - cached.timestamp < this.cacheTimeout
CacheValid(entry, t) == entry.present /\ t - entry.timestamp < cacheTimeout

\* A variant that reports a miss for an expired entry and leaves it stored.
_getFromCacheKeeping(c, key, t) ==
    IF CacheValid(c[key], t)
    THEN [data |-> c[key].data, cache |-> c]
    ELSE [data |-> NullVal, cache |-> c]

\* A variant that restarts the age of an entry each time it is served.
_getFromCacheSliding(c, key, t) ==
    IF CacheValid(c[key], t)
    THEN [data |-> c[key].data, cache |-> [c EXCEPT ![key].timestamp = t]]
    ELSE [data |-> NullVal, cache |-> [c EXCEPT ![key] = NoEntry]]

\* _getFromCache: the data returned and the cache it leaves behind.
_getFromCache(c, key, t) ==
    IF CacheValid(c[key], t)
    THEN [data |-> c[key].data, cache |-> c]
    ELSE [data |-> NullVal, cache |-> [c EXCEPT ![key] = NoEntry]]

_setCache(c, key, data, t) == [c EXCEPT ![key] = Entry(data, t)]

\* A variant that keeps caching on whatever the option says.
CachingAlways(useCache) == TRUE

\* const { useCache = true } = options; if (useCache) ...
Caching(useCache) == useCache

\* A variant that substitutes the parameters into the statement text.
BridgeStatementBound(sql, params) == IF params = <<>> THEN sql ELSE "Q0"

\* db.simpleQuery(sql), db.execute(sql): the text handed to the bridge.
BridgeStatement(sql, params) == sql

\* A variant that removes nothing when no key is given.
clearCacheKeyOnly(c, key) ==
    IF key # NoKey THEN [c EXCEPT ![key] = NoEntry] ELSE c

clearCache(c, key) ==
    IF key # NoKey THEN [c EXCEPT ![key] = NoEntry] ELSE EmptyCache

(***************************************************************************)
(* InformixConnection: artifact paths, cleanup and decoding.               *)
(***************************************************************************)
JavaFile(kind) == IF kind = "query" THEN "InformixQuery.java" ELSE "InformixExecute.java"
ClassFile(kind) == IF kind = "query" THEN "InformixQuery.class" ELSE "InformixExecute.class"
Paths == {JavaFile(k) : k \in {"query", "execute"}} \cup {ClassFile(k) : k \in {"query", "execute"}}

\* fs.writeFileSync(javaFile, javaCode)
WriteJava(f, kind, sql) == [f EXCEPT ![JavaFile(kind)] = sql]

\* try { unlinkSync(javaFile); unlinkSync(classFile) } catch {}
\* unlinkSync of a missing file throws, so the second removal is skipped
\* when the first one fails.
Cleanup(f, kind) ==
    IF f[JavaFile(kind)] = Absent THEN f
    ELSE [f EXCEPT ![JavaFile(kind)] = Absent, ![ClassFile(kind)] = Absent]

Stdouts == {"json", "empty", "malformed"}

\* Captured standard error: a sequence of lines, each a sequence of words.
\* The generated program prints "ERROR: " + message at the start of a line.
Sentinel == "ERROR:"
NoStderr == <<>>
TaggedStderr == << <<Sentinel, "msg">> >>
EmbeddedStderr == << <<"warning:", "retry", "after", Sentinel, "msg">> >>
OtherStderr == << <<"warning:", "msg">> >>

\* System.err.println("ERROR: " + e.getMessage()): a line that starts with
\* the sentinel.
StderrTagged(err) ==
    \E i \in 1..Len(err) : Len(err[i]) > 0 /\ err[i][1] = Sentinel

\* stderr.includes('ERROR:'): the sentinel anywhere in the captured text.
StderrIncludes(err) ==
    \E i \in 1..Len(err) : \E j \in 1..Len(err[i]) : err[i][j] = Sentinel

\* Whether the generated program caught an exception (it prints the tagged
\* line and exits 1) or died: its statement did not complete.
ProgramFailed(o) == o.code # 0 \/ StderrTagged(o.stderr)

\* A run that exits 0 without the sentinel prints any of the three texts; a
\* failing run is given the well-formed text, which the code must not accept.
RunOutcomes ==
    [code : {0}, stderr : {NoStderr}, stdout : Stdouts]
        \cup [code : {0}, stderr : {OtherStderr, TaggedStderr, EmbeddedStderr},
              stdout : {"json"}]
        \cup [code : {1}, stderr : {NoStderr, TaggedStderr}, stdout : {"json"}]

\* code !== 0 || stderr.includes('ERROR:')
RunFailed(o) == o.code # 0 \/ StderrIncludes(o.stderr)

\* The diagnostics javac may print when it fails.
CompileDiags == {<<>>, << <<"error:", "msg">> >>}

\* The message of an Error: a fixed text followed by captured text.
Msg(prefix, text) == [wrapped |-> FALSE, prefix |-> prefix, text |-> text]
NoMsg == Msg("", <<>>)
JavaMissingMessage == Msg("Java is not installed or not in PATH", <<>>)
ParseFailMessage == Msg("Failed to parse results", <<>>)

\* A variant that drops the captured diagnostics.
CompileFailMessageBare(diag) == Msg("Compilation failed: ", <<>>)

\* new Error(`Compilation failed: ${compileErr}`)
CompileFailMessage(diag) == Msg("Compilation failed: ", diag)

\* new Error(stderr || 'Query failed'), new Error(stderr || 'Execute failed')
RunFailMessage(kind, err) ==
    IF err # <<>> THEN Msg("", err)
    ELSE Msg(IF kind = "query" THEN "Query failed" ELSE "Execute failed", <<>>)

\* testConnection: new Error(`Connection test failed: ${error.message}`)
TestFailMessage(m) == [m EXCEPT !.wrapped = TRUE]

\* A variant that downgrades a parse failure to no rows.
ParseQueryLenient(stdout, val) ==
    IF stdout = "json" THEN [ok |-> TRUE, value |-> val]
    ELSE [ok |-> TRUE, value |-> ArrayVal(<<>>)]

\* simpleQuery: JSON.parse(stdout.trim() || '[]'), a parse failure rejects.
ParseQueryOutput(stdout, val) ==
    IF stdout = "empty" THEN [ok |-> TRUE, value |-> ArrayVal(<<>>)]
    ELSE IF stdout = "json" THEN [ok |-> TRUE, value |-> val]
    ELSE [ok |-> FALSE, value |-> NullVal]

\* execute: JSON.parse(stdout.trim() || default), a parse failure resolves
\* with the default outcome.
ParseExecuteOutput(stdout, val) ==
    IF stdout = "json" THEN [ok |-> TRUE, value |-> val]
    ELSE [ok |-> TRUE, value |-> ExecVal(0, TRUE)]

ParseOutput(kind, stdout, val) ==
    IF kind = "query" THEN ParseQueryOutput(stdout, val)
    ELSE ParseExecuteOutput(stdout, val)

(***************************************************************************)
(* State.                                                                  *)
(***************************************************************************)
VARIABLES
    now,            \* Date.now()
    cache,          \* DatabaseService.cache
    initialized,    \* DatabaseService.initialized
    isInitialized,  \* InformixConnection.isInitialized
    files,          \* the temporary directory: path -> statement or Absent
    calls,          \* the call each caller has in flight
    dbVersion,      \* number of writes the database has applied
    nCalls,         \* calls started so far
    nOverlaps,      \* calls started while another one was in flight
    alive,          \* the Node process has not died of an uncaught exception
    lit,            \* a statement text on its way into a Java string literal
    wire,           \* a result set on its way through the program's output
    http,           \* a request on its way through a route of the HTTP API
    ev,             \* what the last step did (observation only)
    streak          \* the current run of identical cached reads (observation only)

vars == <<now, cache, initialized, isInitialized, files, calls, dbVersion,
          nCalls, nOverlaps, alive, lit, wire, http,
          ev, streak>>

\* compiles and runs count the compile and run steps made for the call's own
\* statement; snap is the database version when the run step was spawned;
\* cleared tells that an execute call emptied the cache while this call was
\* in flight; queries is the list a transaction call was given and idx the
\* position in it of the statement at the bridge.
Idle == [pc |-> "idle", stage |-> "none", op |-> "none", sql |-> "none",
         params |-> <<>>, useCache |-> FALSE, cacheTtl |-> 0,
         bkind |-> "none", bsql |-> "none", compiled |-> "none",
         snap |-> 0, compiles |-> 0, runs |-> 0, cleared |-> FALSE,
         queries |-> <<>>, idx |-> 0]

\* The observation of one step: the call it belongs to, the bridge call it
\* started, the bridge call it settled, and what it returned to the caller;
\* shutdowns counts the shutdown calls made in a row up to this step; idx is
\* the position of the transaction statement whose bridge call the step
\* settled and nextIdx that of the one it sent to the bridge.
NoEv == [act |-> "none", op |-> "none", key |-> NoKey,
         sql |-> "none", params |-> <<>>,
         useCache |-> FALSE, cacheTtl |-> 0, lookAge |-> -1,
         started |-> "none", spawn |-> "none", fail |-> "none",
         bridge |-> "none", bkind |-> "none", stage |-> "none",
         code |-> 0, sentinel |-> FALSE, stderr |-> NoStderr,
         diag |-> <<>>, stdout |-> "none",
         value |-> NullVal, left |-> FALSE, compiles |-> 0, runs |-> 0,
         cleared |-> FALSE, stale |-> FALSE, afterStale |-> FALSE,
         ret |-> "none", errcode |-> "none", errmsg |-> NoMsg,
         fromCache |-> FALSE, data |-> NullVal, entries |-> 0,
         health |-> "none", cacheSize |-> -1, shutdowns |-> 0,
         statsInitialized |-> FALSE, idx |-> 0, nextIdx |-> 0]

\* The statement text under test: the text given, its escaped form, and the
\* text a Java compiler reads back from the literal.
NoLit == [stage |-> "none", sql |-> <<>>, escaped |-> <<>>,
          ok |-> FALSE, back |-> <<>>]

\* The result set under test: the rows the statement returned, the text the
\* generated program printed, and what the bridge parsed from it.
NoWire == [stage |-> "none", rs |-> <<>>, text |-> <<>>,
           ok |-> FALSE, back |-> <<>>]

\* The request under test: the sql field of its body, whether the route
\* called the service and with what text, and the response sent; sent lists
\* the status of every response written to the connection, thrown tells
\* that the handler ended with an error it did not catch.
Missing == [kind |-> "missing", text |-> <<>>]
NoHttp == [stage |-> "none", route |-> "none", sql |-> Missing,
           useCache |-> TRUE, called |-> FALSE, passed |-> <<>>,
           outcome |-> "none", status |-> 0, code |-> "none",
           sent |-> <<>>, thrown |-> FALSE]

NoStreak == [state |-> "none", key |-> NoKey, rows |-> NullVal, t0 |-> 0,
             n |-> 0, bridge |-> 0, allHit |-> TRUE, lateBridge |-> FALSE]

InFlight(c) == c.pc # "idle"

\* The artifact paths a bridge call in flight works on.
ArtifactPaths(c) == {JavaFile(c.bkind), ClassFile(c.bkind)}

\* A variant that counts only the entries a lookup would still serve.
SizeFresh(c) == Cardinality({k \in Keys : CacheValid(c[k], now)})

\* this.cache.size: the number of keys the Map holds.
Size(c) == Cardinality({k \in Keys : c[k].present})

KeyOf(cl) == IF cl.op = "query" THEN _getCacheKey(cl.sql, cl.params) ELSE NoKey

\* The service is either freshly constructed, or the server's start-up call
\* of init() has completed (server start awaits it before listening).
Init ==
    /\ now = 0
    /\ cache = EmptyCache
    /\ initialized \in BOOLEAN
    /\ isInitialized = initialized
    /\ files = [path \in Paths |-> Absent]
    /\ calls = [p \in Procs |-> Idle]
    /\ dbVersion = 0
    /\ nCalls = 0
    /\ nOverlaps = 0
    /\ alive = TRUE
    /\ lit = NoLit
    /\ wire = NoWire
    /\ http = NoHttp
    /\ ev = NoEv
    /\ streak = NoStreak

(***************************************************************************)
(* A call returns to its caller: ok, with a ServiceError (errcode set), or *)
(* with a raw Error.                                                       *)
(***************************************************************************)
Return(p, e, c, f, status, errcode, fromCache, data) ==
    /\ cache' = c
    /\ files' = f
    /\ calls' = [q \in Procs |->
                    IF q = p THEN Idle
                    ELSE IF e.op \in {"execute", "transaction"}
                            /\ status = "ok" /\ InFlight(calls[q])
                    THEN [calls[q] EXCEPT !.cleared = TRUE]
                    ELSE calls[q]]
    /\ alive' = alive
    /\ ev' = [e EXCEPT !.ret = status, !.errcode = errcode,
                       !.fromCache = fromCache, !.data = data,
                       !.entries = Size(cache)]

\* A bridge call starts: the source is written and javac is spawned.  No
\* 'error' listener is attached to the child: when the executable cannot be
\* launched the 'error' event is thrown as an uncaught exception on the next
\* tick, the process dies and the promise of the call is never settled.
StartBridge(p, e, cl, c, f, stage, kind, sql) ==
    /\ cache' = c
    /\ files' = WriteJava(f, kind, sql)
    /\ calls' = [calls EXCEPT ![p] = [cl EXCEPT !.pc = "compile", !.stage = stage,
                                               !.bkind = kind, !.bsql = sql,
                                               !.compiled = "none",
                                               !.compiles = @ + 1]]
    /\ \E spawned \in BOOLEAN :
        /\ alive' = spawned
        /\ ev' = [e EXCEPT !.started = kind, !.compiles = cl.compiles + 1,
                           !.spawn = IF spawned THEN "javac" ELSE "error"]

(***************************************************************************)
(* DatabaseService.query after init(): the cache lookup and the bridge     *)
(* call.                                                                   *)
(***************************************************************************)
\* The age of the entry a lookup finds, -1 when there is none.
LookAge(cl) ==
    LET key == _getCacheKey(cl.sql, cl.params)
    IN  IF cl.useCache /\ cache[key].present THEN now - cache[key].timestamp ELSE -1

\* if (useCache) { cached = _getFromCache(key); if (cached) return ... }
CacheHit(cl) ==
    /\ cl.op = "query"
    /\ Caching(cl.useCache)
    /\ Truthy(_getFromCache(cache, _getCacheKey(cl.sql, cl.params), now).data)

QueryMain(p, e0, cl, f) ==
    LET key == _getCacheKey(cl.sql, cl.params)
        look == _getFromCache(cache, key, now)
        e == [e0 EXCEPT !.lookAge = LookAge(cl)]
    IN  IF Caching(cl.useCache)
        THEN IF CacheHit(cl)
             THEN Return(p, e, look.cache, f, "ok", "none", TRUE, look.data)
             ELSE StartBridge(p, e, cl, look.cache, f, "main", "query",
                              BridgeStatement(cl.sql, cl.params))
        ELSE StartBridge(p, e, cl, cache, f, "main", "query",
                         BridgeStatement(cl.sql, cl.params))

\* DatabaseService.execute after init(): db.execute(sql).
ExecuteMain(p, e, cl, f) ==
    StartBridge(p, e, cl, cache, f, "main", "execute",
                BridgeStatement(cl.sql, cl.params))

\* DatabaseService.healthCheck after init(): db.testConnection().
HealthMain(p, e, cl, f) ==
    StartBridge(p, e, cl, cache, f, "main", "query", TestSql)

\* A variant that clears the cache whether or not the statements succeeded.
TransactionSettledAlways(c, succeeded) == clearCache(c, NoKey)

\* The cache after the loop of transaction() ended: this.clearCache() is
\* reached only when no statement threw.
TransactionSettled(c, succeeded) ==
    IF succeeded THEN clearCache(c, NoKey) ELSE c

\* transaction(): the statement at position i of the list goes to
\* db.simpleQuery; past the end of the list the cache is cleared and the
\* call returns.
TransactionStep(p, e, cl, f, i) ==
    IF i <= Len(cl.queries)
    THEN StartBridge(p, [e EXCEPT !.nextIdx = i], [cl EXCEPT !.idx = i],
                     cache, f, "main", "query", cl.queries[i])
    ELSE Return(p, e, TransactionSettled(cache, TRUE), f,
                "ok", "none", FALSE, NullVal)

\* DatabaseService.transaction after init(): the first statement.
TransactionMain(p, e, cl, f) == TransactionStep(p, e, cl, f, 1)

\* What a call does once init() has returned.
AfterInit(p, e, cl, f) ==
    IF cl.op = "query" THEN QueryMain(p, e, cl, f)
    ELSE IF cl.op = "execute" THEN ExecuteMain(p, e, cl, f)
    ELSE IF cl.op = "health" THEN HealthMain(p, e, cl, f)
    ELSE IF cl.op = "transaction" THEN TransactionMain(p, e, cl, f)
    ELSE Return(p, e, cache, f, "ok", "none", FALSE, NullVal)

(***************************************************************************)
(* The run of identical cached reads a call continues, starts or ends.     *)
(***************************************************************************)
StreakOnCall(cl) ==
    LET key == KeyOf(cl)
        quiet == \A q \in Procs : ~InFlight(calls[q])
        hit == CacheHit(cl)
        look == _getFromCache(cache, key, now)
    IN  IF ~(cl.op = "query" /\ cl.useCache /\ initialized /\ quiet)
        THEN NoStreak
        ELSE IF streak.state = "open" /\ streak.key = key
        THEN IF now - streak.t0 < cacheTimeout
             THEN [streak EXCEPT !.n = @ + 1,
                                 !.bridge = IF hit THEN @ ELSE @ + 1,
                                 !.allHit = @ /\ hit /\ look.data = streak.rows]
             ELSE [streak EXCEPT !.state = "late", !.lateBridge = ~hit]
        ELSE IF hit THEN NoStreak
        ELSE [NoStreak EXCEPT !.state = "first", !.key = key, !.n = 1, !.bridge = 1]

\* The first read of a run settles: its rows are stored at this moment.
StreakOnSettle(resolved, v) ==
    IF streak.state = "first"
    THEN IF resolved
         THEN [streak EXCEPT !.state = "open", !.rows = v, !.t0 = now]
         ELSE NoStreak
    ELSE streak

(***************************************************************************)
(* How a failure reaches the caller.                                       *)
(***************************************************************************)
\* How the error of a rejected bridge call reaches the caller: init() is
\* awaited outside the try of query/execute, so its error is not wrapped.
ErrorKind(stage) == IF stage = "init" THEN "Error" ELSE "ServiceError"

ErrorCode(stage, op) ==
    IF stage = "init" THEN "none"
    ELSE IF op = "query" THEN "QUERY_ERROR"
    ELSE IF op = "transaction" THEN "TRANSACTION_ERROR"
    ELSE "EXECUTE_ERROR"

\* The message of the error: testConnection (called by init() and by
\* healthCheck) puts its own text in front of the bridge's.
ErrorMessage(cl, m) ==
    IF cl.stage = "init" \/ cl.op = "health" THEN TestFailMessage(m) ELSE m

\* healthCheck: init() and testConnection() are both awaited inside the try.
HealthCaught(stage) == TRUE

\* The call fails at the given stage: healthCheck answers 'unhealthy', the
\* others throw.
Fail(p, e, cl, c, f, stage) ==
    IF cl.op = "health" /\ HealthCaught(stage)
    THEN Return(p, [e EXCEPT !.health = "unhealthy"], c, f,
                "ok", "none", FALSE, NullVal)
    ELSE Return(p, e, c, f, ErrorKind(stage), ErrorCode(stage, cl.op),
                FALSE, NullVal)

(***************************************************************************)
(* A caller invokes init(), query(), execute() or healthCheck().           *)
(***************************************************************************)
\* The last step stored the result of a read that an execute call overtook:
\* the execute emptied the cache while the read was in flight, and the rows
\* stored were read before its write.
StaleStored ==
    /\ ev.act = "runClose" /\ ev.op = "query" /\ ev.stage = "main"
    /\ ev.bridge = "resolved" /\ ev.useCache
    /\ ev.cleared /\ ev.stale

CallOf(p, op, sql, params, useCache, cacheTtl, queries, javaOk) ==
    /\ alive
    /\ calls[p].pc = "idle"
    /\ \A q \in Procs : q < p => InFlight(calls[q])
    /\ nCalls < MaxCalls
    /\ nCalls' = nCalls + 1
    /\ LET over == \E q \in Procs : InFlight(calls[q])
       IN  /\ over => nOverlaps < MaxOverlaps
           /\ nOverlaps' = IF over THEN nOverlaps + 1 ELSE nOverlaps
    /\ UNCHANGED <<now, dbVersion, lit, wire, http>>
    /\ LET cl == [Idle EXCEPT !.op = op, !.sql = sql, !.params = params,
                              !.useCache = useCache, !.cacheTtl = cacheTtl,
                              !.queries = queries]
           e == [NoEv EXCEPT !.act = "call", !.op = op, !.key = KeyOf(cl),
                             !.sql = sql, !.params = params,
                             !.useCache = useCache, !.cacheTtl = cacheTtl,
                             !.afterStale = StaleStored /\ op = "query"
                                               /\ KeyOf(cl) = ev.key,
                             !.shutdowns = IF ev.act = "shutdown"
                                            THEN ev.shutdowns ELSE 0]
       IN  /\ streak' = StreakOnCall(cl)
           /\ IF initialized
              THEN \* init(): if (this.initialized) return
                   /\ UNCHANGED <<initialized, isInitialized>>
                   /\ AfterInit(p, e, cl, files)
              ELSE IF isInitialized
              THEN \* db.initialize(): already initialized
                   /\ initialized' = TRUE
                   /\ UNCHANGED isInitialized
                   /\ AfterInit(p, e, cl, files)
              ELSE IF ~javaOk
              THEN \* execSync('java -version') throws
                   /\ UNCHANGED <<initialized, isInitialized>>
                   /\ Fail(p, [e EXCEPT !.errmsg = JavaMissingMessage],
                           cl, cache, files, "init")
              ELSE \* testConnection(): simpleQuery(TestSql)
                   /\ UNCHANGED <<initialized, isInitialized>>
                   /\ StartBridge(p, e, cl, cache, files, "init", "query", TestSql)

Call(p, op, sql, params, useCache, cacheTtl, javaOk) ==
    CallOf(p, op, sql, params, useCache, cacheTtl, <<>>, javaOk)

CallInit(p) ==
    \E javaOk \in BOOLEAN :
        Call(p, "init", "none", <<>>, FALSE, 0, javaOk)

CallQuery(p) ==
    \E q \in QueryCalls, javaOk \in BOOLEAN :
        Call(p, "query", q[1], q[2], q[3], q[4], javaOk)

CallExecute(p) ==
    \E sql \in WriteSqls, params \in WriteParams, javaOk \in BOOLEAN :
        Call(p, "execute", sql, params, FALSE, 0, javaOk)

CallHealth(p) ==
    \E javaOk \in BOOLEAN :
        Call(p, "health", "none", <<>>, FALSE, 0, javaOk)

\* The lists of statements callers hand to transaction().
TransactionLists == {<<>>, <<"Q1">>, <<"Q0", "Q1">>}

CallTransaction(p) ==
    \E queries \in TransactionLists, javaOk \in BOOLEAN :
        CallOf(p, "transaction", "none", <<>>, FALSE, 0, queries, javaOk)

(***************************************************************************)
(* A bridge call rejects: the error travels up to the caller.              *)
(***************************************************************************)
\* A variant that clears the cache whether or not the statement succeeded.
ExecuteSettledAlways(c, resolved) == clearCache(c, NoKey)

\* The cache after db.execute() settled inside DatabaseService.execute.
ExecuteSettled(c, resolved) == IF resolved THEN clearCache(c, NoKey) ELSE c

\* A variant that starts the bridge call of the statement once more when it
\* has failed.
RejectRetrying(p, e, cl, f) ==
    /\ UNCHANGED <<initialized, isInitialized>>
    /\ IF cl.stage = "main" /\ cl.compiles < 2
       THEN /\ streak' = streak
            /\ StartBridge(p, e, cl, cache, f, "main", cl.bkind, cl.bsql)
       ELSE /\ streak' = StreakOnSettle(FALSE, NullVal)
            /\ Fail(p, [e EXCEPT !.errmsg = ErrorMessage(cl, @)], cl,
                    IF cl.stage = "main" /\ cl.op = "execute"
                    THEN ExecuteSettled(cache, FALSE) ELSE cache,
                    f, cl.stage)

\* A variant that stores an empty result for a read that failed.
RejectStoring(p, e, cl, f) ==
    /\ UNCHANGED <<initialized, isInitialized>>
    /\ streak' = StreakOnSettle(FALSE, NullVal)
    /\ Fail(p, [e EXCEPT !.errmsg = ErrorMessage(cl, @)], cl,
            IF cl.stage = "main" /\ cl.op = "execute"
            THEN ExecuteSettled(cache, FALSE)
            ELSE IF cl.stage = "main" /\ cl.op = "query" /\ Caching(cl.useCache)
            THEN _setCache(cache, _getCacheKey(cl.sql, cl.params),
                           ArrayVal(<<>>), now)
            ELSE cache,
            f, cl.stage)

\* The bridge call of cl rejects: query and execute wrap the error in a
\* ServiceError and throw it; nothing is stored.
Reject(p, e, cl, f) ==
    /\ UNCHANGED <<initialized, isInitialized>>
    /\ streak' = StreakOnSettle(FALSE, NullVal)
    /\ Fail(p, [e EXCEPT !.errmsg = ErrorMessage(cl, @)], cl,
            IF cl.stage = "main" /\ cl.op = "execute"
            THEN ExecuteSettled(cache, FALSE)
            ELSE IF cl.stage = "main" /\ cl.op = "transaction"
            THEN TransactionSettled(cache, FALSE)
            ELSE cache,
            f, cl.stage)

\* A variant that does not store a result read before a write that has
\* since been applied.
StoreFenced(c, cl, v, t) ==
    IF cl.snap < dbVersion THEN c
    ELSE _setCache(c, _getCacheKey(cl.sql, cl.params), v, t)

\* if (useCache) this._setCache(cacheKey, data): whatever happened to the
\* cache while the bridge call was in flight.
Store(c, cl, v, t) == _setCache(c, _getCacheKey(cl.sql, cl.params), v, t)

\* A bridge call resolves with value v: the caller's continuation runs.
Resolve(p, e, cl, f, v) ==
    IF cl.stage = "init"
    THEN /\ isInitialized' = TRUE
         /\ initialized' = TRUE
         /\ streak' = streak
         /\ AfterInit(p, e, [cl EXCEPT !.compiles = 0, !.runs = 0], f)
    ELSE /\ UNCHANGED <<initialized, isInitialized>>
         /\ streak' = StreakOnSettle(TRUE, v)
         /\ IF cl.op = "query"
            THEN Return(p, e,
                        IF Caching(cl.useCache) THEN Store(cache, cl, v, now)
                        ELSE cache,
                        f, "ok", "none", FALSE, v)
            ELSE IF cl.op = "health"
            THEN Return(p, [e EXCEPT !.health = "healthy",
                                     !.cacheSize = Size(cache)],
                        cache, f, "ok", "none", FALSE, NullVal)
            ELSE IF cl.op = "transaction"
            THEN TransactionStep(p, e, cl, f, cl.idx + 1)
            ELSE Return(p, e, ExecuteSettled(cache, TRUE), f, "ok", "none", FALSE, v)

(***************************************************************************)
(* The compile step of p's bridge call closes.                             *)
(***************************************************************************)
\* The sources javac may have read: the one this call wrote, or the one the
\* path holds now (another call of the same kind may have rewritten it).
CompileSources(cl) == {cl.bsql} \cup ({files[JavaFile(cl.bkind)]} \ {Absent})

\* Whether artifacts of a bridge call of this kind exist.
ArtifactsLeft(f, kind) == f[JavaFile(kind)] # Absent \/ f[ClassFile(kind)] # Absent

\* The observation of a step of the bridge call cl.
BridgeEv(act, cl) ==
    [NoEv EXCEPT !.act = act, !.op = cl.op, !.key = KeyOf(cl),
                 !.sql = cl.sql, !.params = cl.params,
                 !.useCache = cl.useCache, !.cacheTtl = cl.cacheTtl,
                 !.bkind = cl.bkind, !.stage = cl.stage,
                 !.compiles = cl.compiles, !.runs = cl.runs,
                 !.idx = cl.idx]

CompileClose(p) ==
    /\ alive
    /\ calls[p].pc = "compile"
    /\ UNCHANGED <<now, dbVersion, nCalls, nOverlaps, lit, wire, http>>
    /\ LET cl == calls[p]
           e == BridgeEv("compileClose", cl)
       IN  \/ \* code !== 0: reject, nothing is removed
              \E diag \in CompileDiags :
                Reject(p, [e EXCEPT !.bridge = "rejected", !.code = 1,
                                    !.diag = diag,
                                    !.errmsg = CompileFailMessage(diag),
                                    !.left = ArtifactsLeft(files, cl.bkind)],
                       cl, files)
           \/ \* code === 0: the class file is written and java is spawned
              \E src \in CompileSources(cl), spawned \in BOOLEAN :
                /\ files' = [files EXCEPT ![ClassFile(cl.bkind)] = src]
                /\ calls' = [calls EXCEPT ![p] = [cl EXCEPT !.pc = "run",
                                                           !.compiled = src,
                                                           !.snap = dbVersion,
                                                           !.runs = @ + 1]]
                /\ alive' = spawned
                /\ ev' = [e EXCEPT !.runs = @ + 1,
                                   !.spawn = IF spawned THEN "java" ELSE "error"]
                /\ UNCHANGED <<cache, initialized, isInitialized, streak>>

(***************************************************************************)
(* The run step of p's bridge call closes.                                 *)
(***************************************************************************)
\* The classes java may have loaded: the one this call compiled, or the one
\* the path holds now.
RunClasses(cl) == {cl.compiled} \cup ({files[ClassFile(cl.bkind)]} \ {Absent})

\* The text a successful run prints, as the value it encodes.
Printed(kind, ran, v) ==
    IF kind = "query" THEN ArrayVal(RowsOf(ran, v)) ELSE ExecVal(1, TRUE)

\* The run step read the database at some moment between its spawn and its
\* close: it saw any version from the one at spawn to the current one.
RunClose(p) ==
    /\ alive
    /\ calls[p].pc = "run"
    /\ UNCHANGED <<now, nCalls, nOverlaps, lit, wire, http>>
    /\ \E o \in RunOutcomes, ran \in RunClasses(calls[p]),
          v \in calls[p].snap..dbVersion :
        LET cl == calls[p]
            applied == cl.bkind = "execute" /\ ~ProgramFailed(o)
            f == Cleanup(files, cl.bkind)
            parsed == ParseOutput(cl.bkind, o.stdout, Printed(cl.bkind, ran, v))
            e == [BridgeEv("runClose", cl) EXCEPT
                              !.code = o.code, !.stderr = o.stderr,
                              !.sentinel = StderrIncludes(o.stderr),
                              !.stdout = o.stdout,
                              !.cleared = cl.cleared,
                              !.stale = Printed(cl.bkind, ran, v)
                                            # Printed(cl.bkind, ran, dbVersion),
                              !.left = ArtifactsLeft(f, cl.bkind)]
        IN  /\ applied => dbVersion < MaxWrites
            /\ dbVersion' = IF applied THEN dbVersion + 1 ELSE dbVersion
            /\ IF RunFailed(o)
               THEN Reject(p, [e EXCEPT !.bridge = "rejected", !.fail = "run",
                                        !.errmsg = RunFailMessage(cl.bkind, o.stderr)],
                           cl, f)
               ELSE IF ~parsed.ok
               THEN Reject(p, [e EXCEPT !.bridge = "rejected", !.fail = "decode",
                                        !.errmsg = ParseFailMessage],
                           cl, f)
               ELSE Resolve(p, [e EXCEPT !.bridge = "resolved", !.value = parsed.value],
                            cl, f, parsed.value)

(***************************************************************************)
(* clearCache(key), shutdown() and the clock.                              *)
(***************************************************************************)
ClearCache ==
    /\ alive
    /\ nCalls < MaxCalls
    /\ nCalls' = nCalls + 1
    /\ \E key \in ClearKeys :
        /\ cache' = clearCache(cache, key)
        /\ ev' = [NoEv EXCEPT !.act = "clearCache", !.key = key, !.entries = Size(cache)]
    /\ streak' = NoStreak
    /\ UNCHANGED <<now, initialized, isInitialized, files, calls, dbVersion,
                   nOverlaps, alive, lit, wire, http>>

\* A variant of close() that leaves the bridge's flag as it is.
closeKeeps(isInit) == isInit

\* InformixConnection.close(): this.isInitialized = false
close(isInit) == FALSE

\* shutdown(): this.cache.clear(); await db.close(); this.initialized = false.
\* Nothing in it can throw, and its await yields to no timer or I/O event.
Shutdown ==
    /\ alive
    /\ nCalls < MaxCalls
    /\ nCalls' = nCalls + 1
    /\ cache' = clearCache(cache, NoKey)
    /\ isInitialized' = close(isInitialized)
    /\ initialized' = FALSE
    /\ ev' = [NoEv EXCEPT !.act = "shutdown", !.entries = Size(cache),
                          !.ret = "ok",
                          !.shutdowns = IF ev.act = "shutdown"
                                        THEN ev.shutdowns + 1 ELSE 1]
    /\ streak' = NoStreak
    /\ UNCHANGED <<now, files, calls, dbVersion, nOverlaps, alive, lit, wire, http>>

\* getStats(): synchronous, reads three fields.
GetStats ==
    /\ alive
    /\ nCalls < MaxCalls
    /\ nCalls' = nCalls + 1
    /\ ev' = [NoEv EXCEPT !.act = "getStats", !.ret = "ok",
                          !.statsInitialized = initialized,
                          !.cacheSize = Size(cache)]
    /\ UNCHANGED <<now, cache, initialized, isInitialized, files, calls,
                   dbVersion, nOverlaps, alive, lit, wire, http,
                   streak>>

Tick ==
    /\ alive
    /\ now < MaxTicks * TickMs
    /\ now' = now + TickMs
    /\ ev' = [NoEv EXCEPT !.act = "tick"]
    /\ UNCHANGED <<cache, initialized, isInitialized, files, calls, dbVersion,
                   nCalls, nOverlaps, alive, lit, wire, http,
                   streak>>

Next ==
    \/ \E p \in Procs : CallInit(p)
    \/ \E p \in Procs : CallQuery(p)
    \/ \E p \in Procs : CallExecute(p)
    \/ \E p \in Procs : CallHealth(p)
    \/ \E p \in Procs : CompileClose(p)
    \/ \E p \in Procs : RunClose(p)
    \/ ClearCache
    \/ Shutdown
    \/ GetStats
    \/ Tick

Spec == Init /\ [][Next]_vars

\* Transactions next to reads: the callers invoke query() and transaction().
NextTransaction ==
    \/ \E p \in Procs : CallQuery(p)
    \/ \E p \in Procs : CallTransaction(p)
    \/ \E p \in Procs : CompileClose(p)
    \/ \E p \in Procs : RunClose(p)

SpecTransaction == Init /\ [][NextTransaction]_vars

TypeOK ==
    /\ now \in 0..(MaxTicks * TickMs)
    /\ initialized \in BOOLEAN
    /\ isInitialized \in BOOLEAN
    /\ alive \in BOOLEAN
    /\ nCalls \in 0..MaxCalls
    /\ nOverlaps \in 0..MaxOverlaps
    /\ dbVersion \in 0..MaxWrites
    /\ \A k \in Keys : cache[k].present => cache[k].timestamp <= now

(***************************************************************************)
(* Embedding a statement text in the generated program: the text is        *)
(* escaped and placed between the quotes of a Java string literal, which   *)
(* the Java compiler reads back.  A text is a sequence of characters.      *)
(***************************************************************************)
MaxSqlLen == 3      \* length of the statement texts tried

Backslash == "\\"
Quote == "\""
LineBreak == "\n"
Alphabet == {Backslash, Quote, "'", "a", LineBreak}
Texts == UNION {[1..n -> Alphabet] : n \in 0..MaxSqlLen}

\* Whether the text has a line break, as the statement that the route
\* GET /tables/:tableName/columns writes over four lines has.
HasLineBreak(s) == \E i \in 1..Len(s) : s[i] = LineBreak

\* String.prototype.replace with a global pattern of one character.
RECURSIVE ReplaceAll(_, _, _)
ReplaceAll(s, ch, by) ==
    IF s = <<>> THEN <<>>
    ELSE (IF Head(s) = ch THEN by ELSE <<Head(s)>>) \o ReplaceAll(Tail(s), ch, by)

\* A variant that escapes the quotes before the backslashes.
escapedSqlQuoteFirst(sql) ==
    ReplaceAll(ReplaceAll(sql, Quote, <<Backslash, Quote>>),
               Backslash, <<Backslash, Backslash>>)

\* sql.replace(/\\/g, '\\\\').replace(/"/g, '\\"')
escapedSql(sql) ==
    ReplaceAll(ReplaceAll(sql, Backslash, <<Backslash, Backslash>>),
               Quote, <<Backslash, Quote>>)

\* The Java compiler reads the body of the literal "${escapedSql}": a
\* backslash takes the next character with it, a bare quote ends the
\* literal early, a backslash at the end escapes the closing quote, and a
\* line terminator inside a string literal is a compile-time error.
RECURSIVE ReadLiteral(_)
ReadLiteral(s) ==
    IF s = <<>> THEN [ok |-> TRUE, text |-> <<>>]
    ELSE IF Head(s) = Quote THEN [ok |-> FALSE, text |-> <<>>]
    ELSE IF Head(s) = LineBreak THEN [ok |-> FALSE, text |-> <<>>]
    ELSE IF Head(s) = Backslash
    THEN IF Len(s) = 1 \/ s[2] \notin {Backslash, Quote, "'"}
         THEN [ok |-> FALSE, text |-> <<>>]
         ELSE LET rest == ReadLiteral(Tail(Tail(s)))
              IN  [ok |-> rest.ok,
                   text |-> IF rest.ok THEN <<s[2]>> \o rest.text ELSE <<>>]
    ELSE LET rest == ReadLiteral(Tail(s))
         IN  [ok |-> rest.ok,
              text |-> IF rest.ok THEN <<Head(s)>> \o rest.text ELSE <<>>]

InitLiteral ==
    /\ now = 0
    /\ cache = EmptyCache
    /\ initialized = FALSE
    /\ isInitialized = FALSE
    /\ files = [path \in Paths |-> Absent]
    /\ calls = [p \in Procs |-> Idle]
    /\ dbVersion = 0
    /\ nCalls = 0
    /\ nOverlaps = 0
    /\ alive = TRUE
    /\ wire = NoWire
    /\ http = NoHttp
    /\ ev = NoEv
    /\ streak = NoStreak
    /\ \E sql \in Texts : lit = [NoLit EXCEPT !.stage = "given", !.sql = sql]

\* simpleQuery / execute compute escapedSql.
EscapeSql ==
    /\ lit.stage = "given"
    /\ lit' = [lit EXCEPT !.stage = "escaped", !.escaped = escapedSql(lit.sql)]
    /\ UNCHANGED <<now, cache, initialized, isInitialized, files, calls,
                   dbVersion, nCalls, nOverlaps, alive, wire, http,
                   ev, streak>>

\* javac reads the literal of the generated program.
CompileLiteral ==
    /\ lit.stage = "escaped"
    /\ LET r == ReadLiteral(lit.escaped)
       IN  lit' = [lit EXCEPT !.stage = "read", !.ok = r.ok, !.back = r.text]
    /\ UNCHANGED <<now, cache, initialized, isInitialized, files, calls,
                   dbVersion, nCalls, nOverlaps, alive, wire, http,
                   ev, streak>>

NextLiteral == EscapeSql \/ CompileLiteral

SpecLiteral == InitLiteral /\ [][NextLiteral]_vars

(***************************************************************************)
(* The result set on its way back: the generated program prints it as an   *)
(* array of records, simpleQuery parses that text with JSON.parse.  A text  *)
(* is a sequence of characters.                                            *)
(***************************************************************************)
MaxRows == 2        \* rows of the result sets tried
MaxTextLen == 2     \* length of the column values tried

\* rs.getString(i): null or a string.
Null == [null |-> TRUE, text |-> <<>>]
Text(t) == [null |-> FALSE, text |-> t]

NullWord == <<"n", "u", "l", "l">>
ValueAlphabet == {Backslash, Quote, "n", LineBreak}
ValueTexts ==
    UNION {[1..n -> ValueAlphabet] : n \in 0..MaxTextLen} \cup {NullWord}
Values == {Null} \cup {Text(t) : t \in ValueTexts}

\* A row is the ordered list of its columns: name and value.
Column(name, val) == [name |-> name, val |-> val]
Rows1 == {<<Column(<<"a">>, v)>> : v \in Values}
Rows2 == {<<Column(<<"a">>, v), Column(<<"b">>, w)>> : v, w \in Values}

\* Result sets of one column with up to MaxRows rows, and of two columns
\* with one row.
ResultSets ==
    UNION {[1..n -> Rows1] : n \in 0..MaxRows} \cup {<<r>> : r \in Rows2}

\* val.replace("\\", "\\\\").replace("\"", "\\\""), as the Java source reads
\* once the template literal of the bridge has been evaluated.
EscapeVal(val) ==
    ReplaceAll(ReplaceAll(val, Backslash, <<Backslash, Backslash>>),
               Quote, <<Backslash, Quote>>)

\* "name": followed by null or by the quoted, escaped value.
EncodeColumn(c) ==
    <<Quote>> \o c.name \o <<Quote, ":">> \o
        (IF c.val.null THEN NullWord
         ELSE <<Quote>> \o EscapeVal(c.val.text) \o <<Quote>>)

\* The columns of a row, separated by commas.
RECURSIVE EncodeColumns(_)
EncodeColumns(row) ==
    IF row = <<>> THEN <<>>
    ELSE IF Len(row) = 1 THEN EncodeColumn(row[1])
    ELSE EncodeColumn(row[1]) \o <<",">> \o EncodeColumns(Tail(row))

\* The rows of a result set, each between braces, separated by commas.
RECURSIVE EncodeRows(_)
EncodeRows(rs) ==
    IF rs = <<>> THEN <<>>
    ELSE IF Len(rs) = 1 THEN <<"{">> \o EncodeColumns(rs[1]) \o <<"}">>
    ELSE <<"{">> \o EncodeColumns(rs[1]) \o <<"}", ",">> \o EncodeRows(Tail(rs))

\* System.out.println(sb.toString()): the array and a line terminator.
PrintResult(rs) == <<"[">> \o EncodeRows(rs) \o <<"]", LineBreak>>

\* String.prototype.trim, for the white space these texts can have.
RECURSIVE TrimStart(_)
TrimStart(s) ==
    IF s # <<>> /\ Head(s) = LineBreak THEN TrimStart(Tail(s)) ELSE s

RECURSIVE TrimEnd(_)
TrimEnd(s) ==
    IF s # <<>> /\ s[Len(s)] = LineBreak
    THEN TrimEnd(SubSeq(s, 1, Len(s) - 1)) ELSE s

Trim(s) == TrimEnd(TrimStart(s))

\* JSON.parse: the result of reading a piece of the text.
JsonBad == [ok |-> FALSE, value |-> <<>>, rest |-> <<>>]
JsonGot(value, rest) == [ok |-> TRUE, value |-> value, rest |-> rest]

\* Whether the text starts with the given characters.
StartsWith(s, w) == Len(s) >= Len(w) /\ SubSeq(s, 1, Len(w)) = w

\* The characters of a JSON string after its opening quote: a control
\* character is not allowed, a backslash starts an escape.
RECURSIVE JsonString(_)
JsonString(s) ==
    IF s = <<>> THEN JsonBad
    ELSE IF Head(s) = Quote THEN JsonGot(<<>>, Tail(s))
    ELSE IF Head(s) = LineBreak THEN JsonBad
    ELSE IF Head(s) = Backslash
    THEN IF Len(s) < 2 \/ s[2] \notin {Quote, Backslash, "n"} THEN JsonBad
         ELSE LET r == JsonString(Tail(Tail(s)))
                  ch == IF s[2] = "n" THEN LineBreak ELSE s[2]
              IN  IF r.ok THEN JsonGot(<<ch>> \o r.value, r.rest) ELSE JsonBad
    ELSE LET r == JsonString(Tail(s))
         IN  IF r.ok THEN JsonGot(<<Head(s)>> \o r.value, r.rest) ELSE JsonBad

\* A member value: null or a string.
JsonValue(s) ==
    IF StartsWith(s, NullWord)
    THEN JsonGot(Null, SubSeq(s, Len(NullWord) + 1, Len(s)))
    ELSE IF s # <<>> /\ Head(s) = Quote
    THEN LET r == JsonString(Tail(s))
         IN  IF r.ok THEN JsonGot(Text(r.value), r.rest) ELSE JsonBad
    ELSE JsonBad

\* obj[name] = val: a name met again keeps its place and takes the new value.
PutMember(obj, name, val) ==
    IF \E i \in 1..Len(obj) : obj[i].name = name
    THEN [i \in 1..Len(obj) |->
            IF obj[i].name = name THEN Column(name, val) ELSE obj[i]]
    ELSE Append(obj, Column(name, val))

\* The members of an object after its opening brace or after a comma.
RECURSIVE JsonMembers(_, _)
JsonMembers(s, obj) ==
    IF s = <<>> \/ Head(s) # Quote THEN JsonBad
    ELSE LET k == JsonString(Tail(s))
         IN  IF ~k.ok \/ k.rest = <<>> \/ Head(k.rest) # ":" THEN JsonBad
             ELSE LET v == JsonValue(Tail(k.rest))
                  IN  IF ~v.ok \/ v.rest = <<>> THEN JsonBad
                      ELSE IF Head(v.rest) = "}"
                      THEN JsonGot(PutMember(obj, k.value, v.value), Tail(v.rest))
                      ELSE IF Head(v.rest) = ","
                      THEN JsonMembers(Tail(v.rest),
                                       PutMember(obj, k.value, v.value))
                      ELSE JsonBad

JsonObject(s) ==
    IF s = <<>> \/ Head(s) # "{" THEN JsonBad
    ELSE IF Len(s) >= 2 /\ s[2] = "}" THEN JsonGot(<<>>, Tail(Tail(s)))
    ELSE JsonMembers(Tail(s), <<>>)

\* The elements of an array after its opening bracket or after a comma.
RECURSIVE JsonElements(_, _)
JsonElements(s, arr) ==
    LET o == JsonObject(s)
    IN  IF ~o.ok \/ o.rest = <<>> THEN JsonBad
        ELSE IF Head(o.rest) = "]" THEN JsonGot(Append(arr, o.value), Tail(o.rest))
        ELSE IF Head(o.rest) = ","
        THEN JsonElements(Tail(o.rest), Append(arr, o.value))
        ELSE JsonBad

\* JSON.parse of a text that holds an array of records: nothing may follow
\* the closing bracket.
JsonParse(s) ==
    IF s = <<>> \/ Head(s) # "[" THEN JsonBad
    ELSE LET r == IF Len(s) >= 2 /\ s[2] = "]"
                  THEN JsonGot(<<>>, Tail(Tail(s)))
                  ELSE JsonElements(Tail(s), <<>>)
         IN  IF r.ok /\ r.rest = <<>> THEN r ELSE JsonBad

\* JSON.parse(stdout.trim() || '[]')
ParseStdout(stdout) ==
    LET t == Trim(stdout)
    IN  JsonParse(IF t = <<>> THEN <<"[", "]">> ELSE t)

InitCodec ==
    /\ now = 0
    /\ cache = EmptyCache
    /\ initialized = FALSE
    /\ isInitialized = FALSE
    /\ files = [path \in Paths |-> Absent]
    /\ calls = [p \in Procs |-> Idle]
    /\ dbVersion = 0
    /\ nCalls = 0
    /\ nOverlaps = 0
    /\ alive = TRUE
    /\ lit = NoLit
    /\ http = NoHttp
    /\ ev = NoEv
    /\ streak = NoStreak
    /\ \E rs \in ResultSets : wire = [NoWire EXCEPT !.stage = "given", !.rs = rs]

\* The generated program prints the result set.
EncodeResult ==
    /\ wire.stage = "given"
    /\ wire' = [wire EXCEPT !.stage = "printed", !.text = PrintResult(wire.rs)]
    /\ UNCHANGED <<now, cache, initialized, isInitialized, files, calls,
                   dbVersion, nCalls, nOverlaps, alive, lit, http,
                   ev, streak>>

\* The close handler of the run step parses the captured output.
DecodeResult ==
    /\ wire.stage = "printed"
    /\ LET r == ParseStdout(wire.text)
       IN  wire' = [wire EXCEPT !.stage = "decoded", !.ok = r.ok,
                                !.back = r.value]
    /\ UNCHANGED <<now, cache, initialized, isInitialized, files, calls,
                   dbVersion, nCalls, nOverlaps, alive, lit, http,
                   ev, streak>>

NextCodec == EncodeResult \/ DecodeResult

SpecCodec == InitCodec /\ [][NextCodec]_vars

(***************************************************************************)
(* The HTTP API: POST /api/query checks the sql field of the body and      *)
(* hands it to DatabaseService.query.  A text is a sequence of characters. *)
(***************************************************************************)
MaxPieces == 3      \* pieces a statement text is put together from

SelectWord == <<"S", "E", "L", "E", "C", "T">>

\* The pieces: white space, the verb in both cases and in two halves,
\* another verb, and a letter.
Pieces ==
    { <<" ">>, SelectWord, <<"s", "e", "l", "e", "c", "t">>,
      <<"S", "E", "L">>, <<"E", "C", "T">>,
      <<"D", "E", "L", "E", "T", "E">>, <<"x">> }

RECURSIVE Concat(_)
Concat(ps) == IF ps = <<>> THEN <<>> ELSE Head(ps) \o Concat(Tail(ps))

SqlTexts == {Concat(ps) : ps \in UNION {[1..n -> Pieces] : n \in 0..MaxPieces}}

\* The sql field of the JSON body: absent, a text, or a value that is not a
\* text (a number other than 0).
SqlText(t) == [kind |-> "text", text |-> t]
NotText == [kind |-> "number", text |-> <<>>]
SqlFields == {Missing, NotText} \cup {SqlText(t) : t \in SqlTexts}

\* !sql: undefined and the empty string are falsy.
Falsy(v) == v.kind = "missing" \/ (v.kind = "text" /\ v.text = <<>>)

\* String.prototype.trim
RECURSIVE trimStart(_)
trimStart(t) == IF t # <<>> /\ Head(t) = " " THEN trimStart(Tail(t)) ELSE t

RECURSIVE trimEnd(_)
trimEnd(t) ==
    IF t # <<>> /\ t[Len(t)] = " " THEN trimEnd(SubSeq(t, 1, Len(t) - 1)) ELSE t

trim(t) == trimEnd(trimStart(t))

\* String.prototype.toUpperCase
LowerCase == <<"s", "e", "l", "c", "t", "x">>
UpperCase == <<"S", "E", "L", "C", "T", "X">>
UpperChar(ch) ==
    IF \E i \in 1..Len(LowerCase) : LowerCase[i] = ch
    THEN UpperCase[CHOOSE i \in 1..Len(LowerCase) : LowerCase[i] = ch]
    ELSE ch
toUpperCase(t) == [i \in 1..Len(t) |-> UpperChar(t[i])]

\* String.prototype.startsWith
startsWith(t, w) == Len(t) >= Len(w) /\ SubSeq(t, 1, Len(w)) = w

\* A variant of the guard that lets every text through.
AllowedAlways(t) == TRUE

\* trimmedSql.startsWith('SELECT'), with trimmedSql = sql.trim().toUpperCase()
Allowed(t) == startsWith(toUpperCase(trim(t)), SelectWord)

\* What dbService.query does for the route: it returns a result, throws a
\* ServiceError, or throws the raw Error of a failed init().
ServiceOutcomes == {"result", "ServiceError", "Error"}

\* The two routes that take a statement for the read path from the body.
Routes == {"query", "queryOne"}

InitRoute ==
    /\ now = 0
    /\ cache = EmptyCache
    /\ initialized = FALSE
    /\ isInitialized = FALSE
    /\ files = [path \in Paths |-> Absent]
    /\ calls = [p \in Procs |-> Idle]
    /\ dbVersion = 0
    /\ nCalls = 0
    /\ nOverlaps = 0
    /\ alive = TRUE
    /\ lit = NoLit
    /\ wire = NoWire
    /\ ev = NoEv
    /\ streak = NoStreak
    /\ \E route \in Routes, v \in SqlFields, useCache \in BOOLEAN :
          /\ route = "queryOne" => useCache
          /\ http = [NoHttp EXCEPT !.stage = "received", !.route = route,
                                   !.sql = v, !.useCache = useCache]

\* res.headersSent
HeadersSent(h) == h.sent # <<>>

\* The status line, the headers and the body go out on the connection.
Send(h, status, code) ==
    [h EXCEPT !.status = status, !.code = code, !.sent = Append(@, status)]

\* A variant that writes a response whether or not one has been sent.
resJsonUnchecked(h, status, code) == Send(h, status, code)

\* res.status(status).json(body): setting a header of a response whose
\* headers have been sent throws, and nothing is written.
resJson(h, status, code) ==
    IF HeadersSent(h) THEN [h EXCEPT !.thrown = TRUE] ELSE Send(h, status, code)

\* The response of a route: the handler ends with it; when res.json throws
\* in the try, the catch calls res.status(500).json, which throws again,
\* and the promise of the handler rejects.
Respond(h, status, code) ==
    LET r == resJson(h, status, code)
    IN  [r EXCEPT !.stage = IF r.thrown THEN "rejected" ELSE "responded"]

\* res.setTimeout(30000, ...): the connection has been idle for 30 s while
\* the handler awaits the service; the listener answers 408.
RequestTimeout ==
    /\ http.stage = "service"
    /\ ~HeadersSent(http)
    /\ http' = resJson(http, 408, "TIMEOUT")
    /\ UNCHANGED <<now, cache, initialized, isInitialized, files, calls,
                   dbVersion, nCalls, nOverlaps, alive, lit, wire, ev, streak>>

\* router.post('/query'): up to the response or to the await of the
\* service call.  sql.trim() throws a TypeError for a value that is not a
\* text; the catch answers 500.
PostQuery ==
    /\ http.stage = "received" /\ http.route = "query"
    /\ http' = IF Falsy(http.sql) THEN Respond(http, 400, "MISSING_SQL")
               ELSE IF http.sql.kind # "text"
               THEN Respond(http, 500, "QUERY_ERROR")
               ELSE IF ~Allowed(http.sql.text)
               THEN Respond(http, 403, "FORBIDDEN_OPERATION")
               ELSE [http EXCEPT !.stage = "service", !.called = TRUE,
                                 !.passed = http.sql.text]
    /\ UNCHANGED <<now, cache, initialized, isInitialized, files, calls,
                   dbVersion, nCalls, nOverlaps, alive, lit, wire, ev, streak>>

\* router.post('/query/one'): the sql field is only tested for presence and
\* goes to dbService.queryOne, which hands it to DatabaseService.query.
PostQueryOne ==
    /\ http.stage = "received" /\ http.route = "queryOne"
    /\ http' = IF Falsy(http.sql) THEN Respond(http, 400, "MISSING_SQL")
               ELSE [http EXCEPT !.stage = "service", !.called = TRUE,
                                 !.passed = http.sql.text]
    /\ UNCHANGED <<now, cache, initialized, isInitialized, files, calls,
                   dbVersion, nCalls, nOverlaps, alive, lit, wire, ev, streak>>

\* dbService.query settles: res.json(...) or the catch's res.status(500).
\* A rejected promise of a handler is handled by nobody: depending on the
\* Node version the process logs a warning or dies.
QuerySettles ==
    /\ http.stage = "service"
    /\ \E o \in ServiceOutcomes :
          http' = [Respond(http, IF o = "result" THEN 200 ELSE 500,
                           IF o = "result" THEN "none" ELSE "QUERY_ERROR")
                   EXCEPT !.outcome = o]
    /\ IF http'.thrown THEN alive' \in BOOLEAN ELSE alive' = alive
    /\ UNCHANGED <<now, cache, initialized, isInitialized, files, calls,
                   dbVersion, nCalls, nOverlaps, lit, wire, ev, streak>>

NextRoute == PostQuery \/ PostQueryOne \/ RequestTimeout \/ QuerySettles

SpecRoute == InitRoute /\ [][NextRoute]_vars

(***************************************************************************)
(* Properties.                                                             *)
(***************************************************************************)
Returned == ev.ret # "none"
ExecuteReturnedOk == ev.op = "execute" /\ ev.ret = "ok"
RunSucceeded == ev.act = "runClose" /\ ev.code = 0 /\ ~ev.sentinel

\* C1: query never answers fromCache=true from an entry whose age (now minus
\* its insertion timestamp) is greater than or equal to the ttl; at an age
\* equal to the ttl the lookup is already a miss.
C1_NoStaleHit ==
    ev.fromCache => (0 <= ev.lookAge /\ ev.lookAge < cacheTimeout)

\* A lookup finds an entry exactly ttl old and goes to the bridge.
C1_Witness ==
    /\ ev.act = "call" /\ ev.op = "query"
    /\ ev.lookAge = cacheTimeout
    /\ ~ev.fromCache /\ ev.started = "query"

\* C2: when an execute call whose bridge statement succeeded returns, the
\* cache holds no entry at all, and a query call made right after it on the
\* initialized service is not served from the cache and starts a bridge call.
C2_ExecuteEmptiesCache ==
    [][ /\ ExecuteReturnedOk' => cache' = EmptyCache
        /\ (ExecuteReturnedOk /\ initialized /\ ev'.act = "call" /\ ev'.op = "query")
              => (~ev'.fromCache /\ ev'.started = "query") ]_vars

\* A successful execute has returned and entries were cached before it.
C2_Witness ==
    ExecuteReturnedOk /\ ev.entries > 0 /\ cache = EmptyCache

\* C3: in a run of consecutive, non-overlapping query calls of one statement
\* and parameter list on the initialized service with caching enabled, with
\* no write or clear in between and the first one a miss, the bridge is
\* invoked once, the first call reports fromCache=false and every later call
\* within the ttl of the stored entry reports fromCache=true with the rows
\* of the first (the empty row set too); an identical call made once the ttl
\* has elapsed invokes the bridge again.
C3_ReadOnceWithinTtl ==
    /\ streak.state = "open" =>
          /\ streak.bridge = 1
          /\ streak.allHit
          /\ (ev.op = "query" /\ Returned) =>
                /\ ev.data = streak.rows
                /\ ev.fromCache = (streak.n > 1)
    /\ streak.state = "late" => streak.lateBridge

\* A run of two reads of the empty row set, then a third one after the ttl.
C3_Witness ==
    /\ streak.state = "late"
    /\ streak.n >= 2
    /\ streak.rows = ArrayVal(<<>>)
    /\ ev.started = "query"

\* C4: any two bridge calls in flight work on disjoint artifact paths.
C4_UniquePaths ==
    \A p, q \in Procs :
        (p # q /\ InFlight(calls[p]) /\ InFlight(calls[q]))
            => ArtifactPaths(calls[p]) \cap ArtifactPaths(calls[q]) = {}

\* C5: when a bridge call settles, on whatever exit path, no source or
\* compiled artifact of it is left behind.
C5_ArtifactsRemoved ==
    ev.bridge # "none" => ~ev.left

C7_StrictWriteDecode ==
    (RunSucceeded /\ ev.bkind = "execute" /\ ev.stdout = "malformed")
        => (ev.bridge = "rejected" /\ ev.ret # "ok")

\* C8: a query call with option cacheTtl = T is served from the cache if and
\* only if the entry it finds is younger than T.
C8_TtlOverride ==
    (ev.op = "query" /\ ev.useCache /\ ev.lookAge >= 0)
        => (ev.fromCache <=> ev.lookAge < ev.cacheTtl)

\* C9 as stated: whenever an execute call completes, successfully or not,
\* the cache is empty.
C9_AlwaysCleared ==
    (ev.op = "execute" /\ Returned) => cache = EmptyCache

\* C9 as amended: an execute call that completes successfully leaves the
\* cache empty; one that fails (in init() or in the bridge) leaves the cache
\* exactly as it was.
C9_ClearedOnSuccess ==
    [][ (ev'.op = "execute" /\ ev'.ret # "none")
            => IF ev'.ret = "ok" THEN cache' = EmptyCache ELSE cache' = cache ]_vars

\* An execute call has failed and the cached entries are still there.
C9_Witness ==
    /\ ev.op = "execute" /\ ev.ret = "ServiceError"
    /\ ev.entries > 0 /\ Size(cache) = ev.entries

\* C10: every bridge failure that reaches the caller of query or execute,
\* a failure of the connection test of init() included, is a ServiceError
\* with its code.
C10_ServiceErrorOnly ==
    (ev.op \in {"query", "execute"} /\ ev.bridge = "rejected")
        => (ev.ret = "ServiceError" /\ ev.errcode # "none")

\* C11: when the compiler or the runtime executable cannot be launched, the
\* bridge call fails with an error that is delivered to its caller: the call
\* does not stay pending and the failure is not raised outside the call.
C11_SpawnErrorDelivered ==
    ev.spawn = "error" => (alive /\ ev.bridge = "rejected" /\ ev.ret # "none")

\* C12: when the compile step exits with a non-zero status, the bridge call
\* fails with an error whose message carries the diagnostics captured from
\* the compiler, no run step is started, the call returns with that failure
\* and nothing is stored in the cache.
C12_CompileFailure ==
    [][ (ev'.act = "compileClose" /\ ev'.code # 0)
            => /\ ev'.bridge = "rejected"
               /\ ev'.errmsg.prefix = "Compilation failed: "
               /\ ev'.errmsg.text = ev'.diag
               /\ ev'.runs = 0 /\ ev'.spawn = "none" /\ files' = files
               /\ ev'.ret # "none"
               /\ ev'.ret = "ok" => ev'.health = "unhealthy"
               /\ cache' = cache ]_vars

\* A read whose compile step failed with diagnostics has raised its error.
C12_Witness ==
    /\ ev.act = "compileClose" /\ ev.code # 0 /\ ev.diag # <<>>
    /\ ev.op = "query" /\ ev.stage = "main" /\ ev.useCache
    /\ ev.ret = "ServiceError" /\ ~cache[ev.key].present

\* C13: after a successful compile the bridge call fails as an execution
\* failure exactly when the run step exits with a non-zero status or a line
\* of its standard error starts with the sentinel; in every other case the
\* standard output is decoded.
C13_FailsIffTagged ==
    ev.act = "runClose"
        => ((ev.fail = "run") <=> (ev.code # 0 \/ StderrTagged(ev.stderr)))

\* C14: for every statement text over backslash, double quote and ordinary
\* characters (a text of one line), the escaped text has no unescaped quote
\* and no dangling backslash, and the Java compiler reads back exactly the
\* original text.
C14_EscapeRoundTrip ==
    (lit.stage = "read" /\ ~HasLineBreak(lit.sql))
        => (lit.ok /\ lit.back = lit.sql)

\* A text with a backslash right before a quote has been read back.
C14_Witness ==
    /\ lit.stage = "read" /\ lit.ok
    /\ lit.sql = <<Backslash, Quote, "a">>
    /\ lit.escaped = <<Backslash, Backslash, Backslash, Quote, "a">>

\* C15: a read with caching that resolves stores its rows whatever happened
\* to the cache while it was in flight; when an execute call overtook it
\* (emptied the cache after the read's run had started) and the rows were
\* read before the write, the entry is stored all the same and the same
\* query made right after it is served from the cache with those rows.
C15_StaleAfterClear ==
    [][ /\ (ev'.act = "runClose" /\ ev'.op = "query" /\ ev'.stage = "main"
               /\ ev'.bridge = "resolved" /\ ev'.useCache)
              => cache'[ev'.key] = Entry(ev'.value, now)
        /\ (StaleStored /\ initialized /\ ev'.act = "call" /\ ev'.op = "query"
               /\ ev'.useCache /\ ev'.key = ev.key)
              => (ev'.fromCache /\ ev'.data = ev.value) ]_vars

\* A query is served from the cache, within the ttl, with rows that were
\* read before a write the database has applied and that were stored after
\* the execute call of that write had emptied the cache.
C15_Witness ==
    /\ ev.act = "call" /\ ev.op = "query" /\ ev.afterStale
    /\ ev.fromCache /\ ev.lookAge < cacheTimeout
    /\ dbVersion = 1
    /\ ev.data = ArrayVal(RowsOf(ev.sql, 0))
    /\ ev.data # ArrayVal(RowsOf(ev.sql, dbVersion))

\* C16: healthCheck never throws: it answers 'healthy' with the current
\* cache size when its bridge read succeeds and 'unhealthy' on any failure
\* of init() or of the bridge (an executable that cannot be launched
\* included), and no step of it changes the cache.
C16_HealthCheck ==
    [][ ev'.op = "health"
            => /\ cache' = cache
               /\ ev'.ret \in {"none", "ok"}
               /\ ev'.spawn = "error"
                     => (alive' /\ ev'.ret = "ok" /\ ev'.health = "unhealthy")
               /\ (ev'.bridge = "resolved" /\ ev'.stage = "main")
                     => (ev'.ret = "ok" /\ ev'.health = "healthy"
                            /\ ev'.cacheSize = Size(cache'))
               /\ (ev'.bridge = "rejected" \/ ev'.errmsg = JavaMissingMessage)
                     => (ev'.ret = "ok" /\ ev'.health = "unhealthy") ]_vars

\* C17: a query call with useCache = false never reads, evicts, refreshes or
\* stores a cache entry, is never answered fromCache=true, starts a bridge
\* call when it is made on the initialized service, and returns rows only
\* from a bridge call that resolved.
C17_CacheBypass ==
    [][ (ev'.op = "query" /\ ~ev'.useCache)
            => /\ cache' = cache
               /\ ~ev'.fromCache
               /\ (ev'.act = "call" /\ initialized) => ev'.started = "query"
               /\ ev'.ret = "ok" => ev'.bridge = "resolved" ]_vars

\* A query with useCache = false has started a bridge call although a fresh
\* entry for its key is cached.
C17_Witness ==
    /\ ev.act = "call" /\ ev.op = "query" /\ ~ev.useCache
    /\ ev.started = "query"
    /\ cache[ev.key].present /\ now - cache[ev.key].timestamp < cacheTimeout

\* C18 as stated: a query call with caching on the initialized service is
\* served from the cache whenever a fresh entry exists for its statement
\* text, whatever parameter list that entry was stored under.
C18_SameTextSameEntry ==
    [][ (ev'.act = "call" /\ ev'.op = "query" /\ ev'.useCache /\ initialized
            /\ \E k \in DOMAIN cache :
                  /\ k[1] = ev'.sql
                  /\ cache[k].present
                  /\ now - cache[k].timestamp < cacheTimeout)
            => ev'.fromCache ]_vars

\* C18 as amended: the key is a function of the statement text and of the
\* parameter list: a query call with caching on the initialized service is
\* served from the cache exactly when a fresh entry exists for its text and
\* its parameter list; an entry of the same text under another parameter
\* list does not serve it.
C18_KeyOfTextAndParams ==
    [][ (ev'.act = "call" /\ ev'.op = "query" /\ ev'.useCache /\ initialized)
            => (ev'.fromCache <=>
                   /\ <<ev'.sql, ev'.params>> \in DOMAIN cache
                   /\ cache[<<ev'.sql, ev'.params>>].present
                   /\ now - cache[<<ev'.sql, ev'.params>>].timestamp
                          < cacheTimeout) ]_vars

\* A query with a parameter list misses and goes to the bridge while the
\* entry of the same text with the empty parameter list is fresh.
C18_Witness ==
    /\ ev.act = "call" /\ ev.op = "query" /\ ev.useCache
    /\ ev.sql = "Q1" /\ ev.params = <<1>>
    /\ ~ev.fromCache /\ ev.started = "query" /\ ev.lookAge = -1
    /\ cache[<<"Q1", <<>>>>].present
    /\ now - cache[<<"Q1", <<>>>>].timestamp < cacheTimeout

\* C19: the statement text a query or execute call hands to the bridge is
\* exactly its sql argument, whatever its parameter list.
C19_ParamsInert ==
    \A p \in Procs :
        (InFlight(calls[p]) /\ calls[p].stage = "main"
            /\ calls[p].op \in {"query", "execute"})
            => calls[p].bsql = calls[p].sql

\* A call with a non-empty parameter list has its bridge call in flight.
C19_Witness ==
    \E p \in Procs :
        /\ InFlight(calls[p]) /\ calls[p].stage = "main"
        /\ calls[p].op = "query" /\ calls[p].params = <<1>>
        /\ calls[p].bsql = "Q1"

\* C20: a query call that misses and an execute call make one bridge call
\* for their statement: one compile step and at most one run step; when
\* that bridge call settles the call returns, whatever the outcome, and no
\* further bridge call is started.
C20_NoRetry ==
    /\ \A p \in Procs :
          calls[p].stage = "main" => (calls[p].compiles = 1 /\ calls[p].runs <= 1)
    /\ (ev.op \in {"query", "execute"} /\ ev.stage = "main" /\ ev.bridge # "none")
          => /\ ev.ret # "none"
             /\ ev.started = "none"
             /\ ev.compiles = 1
             /\ ev.runs = (IF ev.act = "runClose" THEN 1 ELSE 0)

\* An execute call whose run step failed has returned its error after one
\* compile step and one run step.
C20_Witness ==
    /\ ev.act = "runClose" /\ ev.op = "execute" /\ ev.stage = "main"
    /\ ev.bridge = "rejected" /\ ev.ret = "ServiceError"
    /\ ev.compiles = 1 /\ ev.runs = 1

\* C21: shutdown is idempotent: a shutdown leaves the cache empty and the
\* service and the bridge marked uninitialized and returns normally; a second
\* shutdown right after the first returns normally too and changes nothing;
\* a query call right after a shutdown is not answered from the cache and
\* starts the initialization (the connection test) again, unless Java is
\* missing, and once that initialization has succeeded with the cache still
\* empty the statement of the call goes to the bridge.
C21_ShutdownIdempotent ==
    [][ /\ ev'.act = "shutdown"
            => /\ cache' = EmptyCache
               /\ ~initialized' /\ ~isInitialized'
               /\ ev'.ret = "ok" /\ alive'
        /\ (ev.act = "shutdown" /\ ev'.act = "shutdown")
            => /\ cache' = cache
               /\ initialized' = initialized
               /\ isInitialized' = isInitialized
               /\ files' = files /\ calls' = calls
        /\ (ev.act = "shutdown" /\ ev'.act = "call" /\ ev'.op = "query")
            => /\ ~ev'.fromCache
               /\ \/ ev'.errmsg = JavaMissingMessage
                  \/ \E p \in Procs :
                        /\ calls[p].pc = "idle"
                        /\ calls'[p].pc = "compile"
                        /\ calls'[p].stage = "init"
                        /\ calls'[p].bsql = TestSql
        /\ \A p \in Procs :
             (/\ calls[p].op = "query" /\ calls[p].stage = "init"
              /\ ev'.act = "runClose" /\ ev'.bridge = "resolved"
              /\ calls'[p].stage # "init"
              /\ cache = EmptyCache)
                => /\ initialized' /\ isInitialized'
                   /\ calls'[p].pc = "compile" /\ calls'[p].stage = "main"
                   /\ calls'[p].bsql = calls[p].sql
      ]_vars

\* A query call has followed two shutdowns in a row, the second of which
\* found nothing left to do, and has started the initialization again.
C21_Witness ==
    /\ ev.act = "call" /\ ev.op = "query" /\ ev.shutdowns = 2
    /\ ev.started = "query" /\ ev.spawn = "javac" /\ ~ev.fromCache
    /\ \E p \in Procs : calls[p].stage = "init" /\ calls[p].bsql = TestSql

\* C22: getStats is pure: it makes no bridge call and changes neither the
\* cache nor the initialization flags, and the cache size it reports is the
\* number of entries stored at that moment, entries whose age has reached
\* the ttl but that no lookup has evicted yet included.
C22_GetStatsPure ==
    [][ ev'.act = "getStats"
            => /\ cache' = cache
               /\ initialized' = initialized /\ isInitialized' = isInitialized
               /\ files' = files /\ calls' = calls /\ dbVersion' = dbVersion
               /\ ev'.started = "none" /\ ev'.ret = "ok"
               /\ ev'.statsInitialized = initialized
               /\ ev'.cacheSize = Cardinality({k \in Keys : cache[k].present})
      ]_vars

\* getStats has counted an entry whose age has reached the ttl.
C22_Witness ==
    /\ ev.act = "getStats" /\ ev.cacheSize = 1
    /\ \E k \in Keys : cache[k].present /\ now - cache[k].timestamp >= cacheTimeout

\* C25: a lookup that finds an entry whose age is greater than or equal to
\* the ttl removes that entry, without any write or clear, and leaves every
\* other entry, its rows and its timestamp as they were.
C25_LazyEviction ==
    [][ ev'.lookAge >= cacheTimeout
            => /\ cache[ev'.key].present
               /\ cache'[ev'.key] = NoEntry
               /\ \A k \in Keys \ {ev'.key} : cache'[k] = cache[k]
               /\ ~ev'.fromCache
      ]_vars

\* A lookup has removed an expired entry while another entry stays stored;
\* no write was applied, and the three calls made were the two reads that
\* stored the entries and this lookup.
C25_Witness ==
    /\ ev.act = "call" /\ ev.op = "query" /\ ev.lookAge >= cacheTimeout
    /\ ~cache[ev.key].present
    /\ \E k \in Keys \ {ev.key} : cache[k].present
    /\ dbVersion = 0 /\ nCalls = 3

\* C29: a cache hit does not refresh the timestamp of the entry: the step
\* that serves an entry leaves the whole cache as it was, the timestamp of a
\* stored entry is only ever set by the put of a resolved caching query for
\* its fingerprint (to the time of that put), and an entry is served only
\* while less than the ttl has passed since then, so a lookup at or after
\* that age is a miss however often the entry was read before.
C29_NoSlidingExpiry ==
    [][ /\ ev'.fromCache
            => /\ cache' = cache
               /\ cache[ev'.key].present
               /\ now - cache[ev'.key].timestamp < cacheTimeout
               /\ ev'.lookAge = now - cache[ev'.key].timestamp
        /\ \A k \in Keys :
             (cache'[k].present /\ cache[k].present
              /\ cache'[k].timestamp # cache[k].timestamp)
                => /\ ev'.act = "runClose" /\ ev'.op = "query"
                   /\ ev'.bridge = "resolved" /\ ev'.stage = "main"
                   /\ ev'.key = k /\ ev'.useCache
                   /\ cache'[k].timestamp = now
        /\ (ev'.act = "call" /\ ev'.op = "query" /\ ev'.useCache /\ initialized
            /\ cache[ev'.key].present
            /\ now - cache[ev'.key].timestamp >= cacheTimeout)
            => ~ev'.fromCache
      ]_vars

\* An entry has been served for the second time, later than the first, and
\* still carries the timestamp of the put that stored it.
C29_Witness ==
    /\ ev.fromCache /\ ev.lookAge = TickMs
    /\ streak.state = "open" /\ streak.key = ev.key /\ streak.n = 3
    /\ streak.allHit /\ streak.bridge = 1
    /\ cache[ev.key].timestamp = streak.t0 /\ now = streak.t0 + TickMs

\* C26: an entry is created or replaced only by the step in which the bridge
\* read of a query call with caching enabled resolves, for the fingerprint
\* of that call and with the rows that read returned; a query whose bridge
\* call fails adds or changes no entry, and neither do execute, healthCheck,
\* init, getStats, clearCache, shutdown and queries with caching disabled.
C26_EntryOnlyFromCachedRead ==
    [][ /\ \A k \in Keys :
             (cache'[k].present /\ cache'[k] # cache[k])
                => /\ ev'.act = "runClose" /\ ev'.op = "query"
                   /\ ev'.stage = "main" /\ ev'.bridge = "resolved"
                   /\ ev'.useCache /\ ev'.key = k
                   /\ ev'.ret = "ok" /\ ~ev'.fromCache
                   /\ cache'[k] = Entry(ev'.value, now)
        /\ (ev'.op = "query" /\ ev'.bridge = "rejected") => cache' = cache
        /\ (\/ ev'.op \in {"execute", "health", "init"}
            \/ ev'.act \in {"getStats", "clearCache", "shutdown"}
            \/ (ev'.op = "query" /\ ~ev'.useCache))
            => \A k \in Keys : cache'[k].present => cache'[k] = cache[k]
      ]_vars

\* The bridge read of a caching query has failed and the call has returned
\* its error with no entry for its fingerprint, while the entry an earlier
\* successful read created is stored.
C26_Witness ==
    /\ ev.act = "runClose" /\ ev.op = "query" /\ ev.stage = "main"
    /\ ev.useCache /\ ev.bridge = "rejected" /\ ev.ret = "ServiceError"
    /\ ~cache[ev.key].present
    /\ \E k \in Keys \ {ev.key} : cache[k].present

\* C27: the rows a query call returns, and the rows it stores under its
\* fingerprint, are rows its own statement produces (at some version of the
\* database), whatever other calls are in flight: when the run step of its
\* bridge call has printed a result set, that result set is the one of the
\* call's own statement.
C27_OwnRows ==
    (/\ ev.act = "runClose" /\ ev.op = "query" /\ ev.stage = "main"
     /\ ev.bridge = "resolved" /\ ev.stdout = "json")
        => /\ \E v \in 0..MaxWrites : ev.data = ArrayVal(RowsOf(ev.sql, v))
           /\ ev.useCache
                => \E v \in 0..MaxWrites :
                      cache[ev.key].data = ArrayVal(RowsOf(ev.sql, v))

\* C28: initialization and its connection test run at most once at a time:
\* while the connection test of one call's initialization is in flight, no
\* other call has a connection test of its own in flight.
C28_SingleInit ==
    Cardinality({p \in Procs : InFlight(calls[p]) /\ calls[p].stage = "init"}) <= 1

\* C30: a statement text that contains a line break is embedded so that the
\* string literal of the generated program is well formed: the compiler
\* reads the literal and gets the statement text back.
C30_LineBreakEmbedded ==
    (lit.stage = "read" /\ HasLineBreak(lit.sql))
        => (lit.ok /\ lit.back = lit.sql)

\* C23: encoding a result set as an array of records and decoding it gives
\* back the same result set: the decoding succeeds and returns the rows,
\* columns and values (Null or Text) that were encoded.
C23_CodecRoundTrip ==
    wire.stage = "decoded" => (wire.ok /\ wire.back = wire.rs)

\* C24 as stated: for every statement text whose trimmed, upper-cased form
\* does not begin with SELECT, POST /api/query answers 403
\* FORBIDDEN_OPERATION and makes no call to the service.
C24_NonSelectForbidden ==
    (/\ http.route = "query" /\ http.stage # "received"
     /\ http.sql.kind = "text"
     /\ ~startsWith(toUpperCase(trim(http.sql.text)), SelectWord))
        => (http.status = 403 /\ http.code = "FORBIDDEN_OPERATION"
            /\ ~http.called)

\* C24: POST /api/query is SELECT only: a request without sql or with the
\* empty text is answered 400 MISSING_SQL, every other text whose trimmed,
\* upper-cased form does not begin with SELECT is answered 403
\* FORBIDDEN_OPERATION, and in both cases the service is not called; the
\* service is called only with a text that begins with SELECT after
\* trimming and upper-casing, and it is handed that text as it was sent.
C24_SelectOnly ==
    (http.route = "query" /\ http.stage # "received")
        => /\ (http.sql.kind = "missing"
                \/ (http.sql.kind = "text" /\ http.sql.text = <<>>))
                => (http.status = 400 /\ http.code = "MISSING_SQL"
                    /\ ~http.called)
           /\ (/\ http.sql.kind = "text" /\ http.sql.text # <<>>
               /\ ~startsWith(toUpperCase(trim(http.sql.text)), SelectWord))
                => (http.status = 403 /\ http.code = "FORBIDDEN_OPERATION"
                    /\ ~http.called)
           /\ http.called
                => /\ http.sql.kind = "text"
                   /\ startsWith(toUpperCase(trim(http.sql.text)), SelectWord)
                   /\ http.passed = http.sql.text
           /\ http.status = 200 => (http.called /\ http.outcome = "result")

\* A text that begins with another verb and has SELECT further on has been
\* answered 403 without a call to the service.
C24_Witness ==
    /\ http.route = "query" /\ http.stage = "responded"
    /\ http.sql = SqlText(<<"D", "E", "L", "E", "T", "E", " ">> \o SelectWord)
    /\ http.status = 403 /\ http.code = "FORBIDDEN_OPERATION"
    /\ ~http.called

\* C31: no route hands a statement text supplied by the caller to the read
\* path of the service unless its trimmed, upper-cased form begins with
\* SELECT; POST /api/query/one rejects what POST /api/query rejects.
C31_ReadPathSelectOnly ==
    http.called
        => /\ http.sql.kind = "text"
           /\ startsWith(toUpperCase(trim(http.sql.text)), SelectWord)

\* C32: transaction sends its statements to the bridge one after another in
\* list order, the next one only when the one before has resolved; when a
\* statement fails the call returns its error at once, sends no later
\* statement and leaves the cache exactly as it was, although the earlier
\* statements have been run; the cache is cleared only in the step in which
\* the last statement has resolved (or at once for an empty list).
C32_Transaction ==
    [][ /\ \A p \in Procs :
             (/\ calls'[p].op = "transaction" /\ calls'[p].stage = "main"
              /\ ~(calls[p].op = "transaction" /\ calls[p].stage = "main"))
                => /\ calls'[p].idx = 1
                   /\ calls'[p].bsql = calls'[p].queries[1]
                   /\ cache' = cache
        /\ \A p \in Procs :
             LET cl == calls[p]
                 n == Len(cl.queries)
             IN  (/\ cl.op = "transaction" /\ cl.stage = "main"
                  /\ [calls'[p] EXCEPT !.cleared = cl.cleared] # cl)
                    => /\ cl.idx \in 1..n
                       /\ cl.bsql = cl.queries[cl.idx]
                       /\ ev'.idx = cl.idx
                       /\ \/ /\ ev'.act = "compileClose" /\ ev'.bridge = "none"
                             /\ calls'[p].pc = "run"
                             /\ calls'[p].idx = cl.idx
                             /\ calls'[p].bsql = cl.bsql
                             /\ cache' = cache /\ ev'.ret = "none"
                          \/ /\ ev'.bridge = "rejected"
                             /\ calls'[p] = Idle
                             /\ ev'.started = "none" /\ ev'.nextIdx = 0
                             /\ ev'.ret = "ServiceError"
                             /\ ev'.errcode = "TRANSACTION_ERROR"
                             /\ cache' = cache
                          \/ /\ ev'.act = "runClose" /\ ev'.bridge = "resolved"
                             /\ cl.idx < n
                             /\ calls'[p].pc = "compile"
                             /\ calls'[p].idx = cl.idx + 1
                             /\ calls'[p].bsql = cl.queries[cl.idx + 1]
                             /\ cache' = cache /\ ev'.ret = "none"
                          \/ /\ ev'.act = "runClose" /\ ev'.bridge = "resolved"
                             /\ cl.idx = n
                             /\ calls'[p] = Idle
                             /\ ev'.started = "none"
                             /\ ev'.ret = "ok"
                             /\ cache' = EmptyCache
        /\ (ev'.op = "transaction" /\ ev'.ret # "ok") => cache' = cache
        /\ (ev'.op = "transaction" /\ ev'.ret = "ok") => cache' = EmptyCache
      ]_vars

\* A transaction has failed at its second statement, after its first one
\* had been run, and the entry stored before the call is still in the cache.
C32_Witness ==
    /\ ev.op = "transaction" /\ ev.stage = "main" /\ ev.idx = 2
    /\ ev.bridge = "rejected" /\ ev.ret = "ServiceError"
    /\ ev.errcode = "TRANSACTION_ERROR"
    /\ ev.entries = 1 /\ Size(cache) = 1

\* C33: for every request at most one response is written: once the
\* response timeout has answered 408, the completion of the route handler,
\* with a result or with an error of the service call, writes nothing more.
C33_OneResponse ==
    /\ Len(http.sent) <= 1
    /\ (http.stage \in {"responded", "rejected"} /\ http.called
        /\ http.sent # <<>> /\ http.sent[1] = 408)
            => /\ http.sent = <<408>>
               /\ http.status = 408 /\ http.code = "TIMEOUT"
               /\ http.stage = "rejected"
    /\ http.stage = "responded" => Len(http.sent) = 1

\* The service call has returned its result after the timeout had answered
\* 408, and the 408 is the only response written.
C33_Witness ==
    /\ http.stage = "rejected" /\ http.outcome = "result"
    /\ http.sent = <<408>> /\ http.thrown
====
